---------------------------- MODULE Spec2Model ----------------------------
(***************************************************************************)
(* A model of aeneas' ExecuteTask (src/aeneas/executetask.py): the nine    *)
(* stage pipeline of execute(), its cleanup registry, and the pure stages  *)
(* _align_text, _translate_text_map and _create_syncmap.                   *)
(*                                                                         *)
(* Times are integers (one unit is half a hop).  A Python value that may   *)
(* be None is a sequence of length 0 (None) or 1 (the value).              *)
(***************************************************************************)
EXTENDS Integers, Sequences, FiniteSets, TLC

(***************************************************************************)
(* Bounds of the model.                                                    *)
(***************************************************************************)
MaxFrags == 2       \* text fragments of the task
MaxFrames == 2      \* rows of the wave map (synthetic frames)
MaxLen == 3         \* length of the real audio
MaxAnchor == 2      \* largest synth anchor time
MaxDetect == 2      \* largest head / tail length the detector returns

(***************************************************************************)
(* Helpers                                                                 *)
(***************************************************************************)
None == <<>>
Some(v) == <<v>>
IsNone(o) == Len(o) = 0
Val(o) == o[1]

Min(a, b) == IF a <= b THEN a ELSE b
Max(a, b) == IF a >= b THEN a ELSE b
Abs(a) == IF a < 0 THEN 0 - a ELSE a

\* gf.safe_float(value, default): the value, or the default for None
SafeFloat(o, default) == IF IsNone(o) THEN default ELSE Val(o)

\* identifiers of the task's text fragments, in text order
FragmentIds == <<"f000001", "f000002", "f000003", "f000004">>

\* the frame stride of the DTW mapping, in time units
Hop == 2


(***************************************************************************)
(* Input domains                                                           *)
(***************************************************************************)
HeadTailFormats == {"None", "ADD", "STRETCH", "HIDDEN"}
Algorithms == {"None", "auto", "rate"}
\* only a missing algorithm, not AUTO, returns the map as it is
NoAdjustmentWithoutAuto == {"None"}

NoAdjustment == {"None", "auto"}

\* the head/tail settings of the configuration:
\* <<head_length, process_length, detect_head_min, detect_head_max,
\*   detect_tail_min, detect_tail_max>>
HeadTailSettings ==
    { <<None, None, None, None, None, None>>,
      <<Some(1), None, None, None, None, None>>,
      <<None, Some(2), None, None, None, None>>,
      <<Some(1), Some(1), Some(0), None, None, Some(1)>>,
      <<None, None, Some(0), None, None, None>>,
      <<None, None, None, None, None, Some(1)>>,
      <<None, None, Some(0), Some(1), Some(0), Some(1)>> }

Configurations ==
    { [ is_audio_file_head_length |-> d[1],
        is_audio_file_process_length |-> d[2],
        is_audio_file_detect_head_min |-> d[3],
        is_audio_file_detect_head_max |-> d[4],
        is_audio_file_detect_tail_min |-> d[5],
        is_audio_file_detect_tail_max |-> d[6],
        adjust_boundary_algorithm |-> a,
        os_file_head_tail_format |-> f ] :
      d \in HeadTailSettings, a \in Algorithms, f \in HeadTailFormats }

\* task.audio_file: None, or an AudioFile whose audio_length may be None
AudioFiles ==
    {None} \cup { Some([audio_length |-> l]) :
                  l \in {None, Some(0), Some(MaxLen)} }

\* task.text_file: None, or a TextFile with 0..MaxFrags fragments
TextFiles ==
    {None} \cup { Some([fragments |-> SubSeq(FragmentIds, 1, n)]) : n \in 0..MaxFrags }

(***************************************************************************)
(* State                                                                   *)
(***************************************************************************)
VARIABLES
    pc,                     \* position of execute(): "ready", "s0".."s9", "done"
    result,                 \* "none", "True", "False", or "raised" (an exception left execute)
    audio_file,             \* task.audio_file
    text_file,              \* task.text_file
    configuration,          \* task.configuration
    sync_map,               \* task.sync_map (None, or the list of sync map fragments)
    cleanup_info,           \* self.cleanup_info: list of [handler, path]
    tmp_files,              \* temporary files that exist on disk
    real_wav_len,           \* length of the audio stored in the real wave file
    real_full_wave_length,  \* local of execute (stage 1)
    synt_anchors,           \* local of execute (stage 3)
    wave_map,               \* local of execute (stage 4)
    text_map,               \* local of execute (stage 5)
    translated_text_map,    \* local of execute (stage 6)
    adjusted_map,           \* local of execute (stage 7); may be the same list object
    aliased,                \* TRUE when adjusted_map is translated_text_map itself
    ran,                    \* history: the stages begun, in order
    cleanups,               \* history: number of calls of _cleanup
    adjusted_in,            \* history: adjusted_map as stage 8 received it
    cancel,                 \* the caller's cancellation signal: None, or Some(stages completed when raised)
    vad_wave_len,           \* history: None, or Some(wave_len given to VAD in stage 7)
    dtw_wave_len,           \* history: None, or Some(length of the real wave given to DTWAligner)
    cut_trace,              \* history: None, or Some(what _cut_head_tail did: loaded, written, detected)
    registered,             \* history: cleanup_info as it was after the last append
    probe_log               \* history: the calls of FFPROBEWrapper.read_properties and their outcomes

vars == << pc, result, audio_file, text_file, configuration, sync_map,
           cleanup_info, tmp_files, real_wav_len,
           real_full_wave_length, synt_anchors, wave_map, text_map,
           translated_text_map, adjusted_map, aliased, ran, cleanups,
           adjusted_in, cancel, vad_wave_len, dtw_wave_len, cut_trace,
           registered, probe_log >>

task_vars == << audio_file, text_file >>
local_vars == << real_full_wave_length, synt_anchors, wave_map, text_map,
                 translated_text_map, adjusted_map, aliased, adjusted_in >>
history_vars == << vad_wave_len, dtw_wave_len, cut_trace, registered >>

\* ExecuteTask(task): a task whose sync map has not been computed yet
Init ==
    /\ pc = "ready"
    /\ result = "none"
    /\ audio_file \in AudioFiles
    /\ text_file \in TextFiles
    /\ configuration \in Configurations
    /\ sync_map = None
    /\ cleanup_info = <<>>
    /\ tmp_files = {}
    /\ real_wav_len = 0
    /\ real_full_wave_length = 0
    /\ synt_anchors = <<>>
    /\ wave_map = <<>>
    /\ text_map = <<>>
    /\ translated_text_map = <<>>
    /\ adjusted_map = <<>>
    /\ aliased = FALSE
    /\ ran = <<>>
    /\ cleanups = 0
    /\ adjusted_in = <<>>
    /\ cancel = None
    /\ vad_wave_len = None
    /\ dtw_wave_len = None
    /\ cut_trace = None
    /\ registered = <<>>
    /\ probe_log = <<>>

(***************************************************************************)
(* _cleanup (lines 201-221): close every handler and remove every path of  *)
(* the registry, then empty the registry.  os.close and os.remove may      *)
(* raise; the exception is swallowed (lines 212, 219).  When os.remove     *)
(* raises the file stays on disk.  Open descriptors are not part of the    *)
(* state, so a failing os.close changes nothing here.                      *)
(***************************************************************************)
RegisteredPaths(info) == { info[i].path : i \in 1..Len(info) } \ {"None"}

\* the sets of files that _cleanup can leave on disk
CleanupOutcomes(info, files) ==
    { files \ removed : removed \in SUBSET RegisteredPaths(info) }

\* self._cleanup() on the registry `info`
Cleanup(info, files) ==
    /\ tmp_files' \in CleanupOutcomes(info, files)
    /\ cleanup_info' = <<>>
    /\ cleanups' = cleanups + 1

\* a failing stage that returns False without running the registry
FailStageWithoutCleanup ==
    /\ pc' = "done"
    /\ result' = "False"
    /\ UNCHANGED << cleanup_info, tmp_files, cleanups >>

\* "STEP n FAILURE": self._cleanup(); return False
FailStage ==
    /\ Cleanup(cleanup_info, tmp_files)
    /\ pc' = "done"
    /\ result' = "False"

(***************************************************************************)
(* execute, lines 70-92: the checks on the task before stage 0             *)
(***************************************************************************)
\* the checks of a task without the one on the number of fragments
TaskIsValidWithoutFragmentCheck ==
    /\ ~IsNone(audio_file)
    /\ ~IsNone(Val(audio_file).audio_length)
    /\ Val(Val(audio_file).audio_length) > 0
    /\ ~IsNone(text_file)

TaskIsValid ==
    /\ ~IsNone(audio_file)
    /\ ~IsNone(Val(audio_file).audio_length)
    /\ Val(Val(audio_file).audio_length) > 0
    /\ ~IsNone(text_file)
    /\ Len(Val(text_file).fragments) # 0

Execute ==
    /\ pc = "ready"
    /\ IF TaskIsValid
         THEN /\ pc' = "s0"
              /\ cleanup_info' = <<>>
              /\ UNCHANGED result
         ELSE /\ pc' = "done"
              /\ result' = "False"
              /\ UNCHANGED cleanup_info
    /\ UNCHANGED << task_vars, configuration, sync_map, tmp_files,
                    real_wav_len, local_vars, ran, cleanups, cancel, history_vars, probe_log >>

(***************************************************************************)
(* STEP 0 (lines 100-108) and _convert (lines 223-256)                     *)
(***************************************************************************)
\* the triples (success, handler, path) _convert can return: mkstemp raised,
\* the conversion raised after the file was created, or both succeeded
ConvertOutcomes ==
    { [ok |-> FALSE, handler |-> "None", path |-> "None"],
      [ok |-> FALSE, handler |-> "real_handler", path |-> "real.wav"],
      [ok |-> TRUE, handler |-> "real_handler", path |-> "real.wav"] }

\* a registration that replaces the registry by the new entry
RegisterAlone(info, handler, path) ==
    << [handler |-> handler, path |-> path] >>

\* self.cleanup_info.append([handler, path]) (lines 103 and 135)
Register(info, handler, path) ==
    Append(info, [handler |-> handler, path |-> path])

Step0 ==
    /\ pc = "s0"
    /\ ran' = Append(ran, 0)
    /\ \E c \in ConvertOutcomes :
          LET created == IF c.path = "None" THEN {} ELSE {c.path}
              registry == Register(cleanup_info, c.handler, c.path)
          IN /\ registered' = registry
             /\ IF c.ok
               THEN /\ cleanup_info' = registry
                    /\ tmp_files' = tmp_files \cup created
                    /\ real_wav_len' = Val(Val(audio_file).audio_length)
                    /\ pc' = "s1"
                    /\ UNCHANGED << result, cleanups >>
               ELSE /\ Cleanup(registry, tmp_files \cup created)
                    /\ pc' = "done"
                    /\ result' = "False"
                    /\ UNCHANGED real_wav_len
    /\ UNCHANGED << task_vars, configuration, sync_map, local_vars, cancel,
                    vad_wave_len, dtw_wave_len, cut_trace, probe_log >>

(***************************************************************************)
(* STEP 1 (lines 110-117) and _extract_mfcc (lines 258-271)                *)
(***************************************************************************)
\* (success, audio_length) of _extract_mfcc on the real full wave
ExtractMfccOutcomes(length) ==
    { [ok |-> FALSE, audio_length |-> 0], [ok |-> TRUE, audio_length |-> length] }

Step1 ==
    /\ pc = "s1"
    /\ ran' = Append(ran, 1)
    /\ \E m \in ExtractMfccOutcomes(real_wav_len) :
          IF m.ok
            THEN /\ real_full_wave_length' = m.audio_length
                 /\ pc' = "s2"
                 /\ UNCHANGED << result, cleanup_info, tmp_files, cleanups >>
            ELSE /\ FailStage
                 /\ UNCHANGED real_full_wave_length
    /\ UNCHANGED << task_vars, configuration, sync_map, real_wav_len, synt_anchors,
                    wave_map, text_map, translated_text_map, adjusted_map, aliased,
                    adjusted_in, cancel, history_vars, probe_log >>

(***************************************************************************)
(* STEP 2 (lines 119-130) and _cut_head_tail (lines 273-370)               *)
(***************************************************************************)
\* AudioFile.trim(head_length, process_length) on audio of the given length:
\* the length that is left
TrimmedLength(length, head_length, process_length) ==
    LET begin == Min(Max(SafeFloat(head_length, 0), 0), length)
    IN  Min(Max(SafeFloat(process_length, length - begin), 0), length - begin)

\* only a head length counts as explicit
ExplicitHeadOnly(c) ==
    ~IsNone(c.is_audio_file_head_length)

Explicit(c) ==
    ~IsNone(c.is_audio_file_head_length) \/ ~IsNone(c.is_audio_file_process_length)

DetectHead(c) ==
    ~IsNone(c.is_audio_file_detect_head_min) \/ ~IsNone(c.is_audio_file_detect_head_max)

DetectTail(c) ==
    ~IsNone(c.is_audio_file_detect_tail_min) \/ ~IsNone(c.is_audio_file_detect_tail_max)

Detect(c) == DetectHead(c) \/ DetectTail(c)

\* the values SD.detect_head / SD.detect_tail can return
DetectedLengths == 0..MaxDetect

\* a detection that writes the process length without the sanity check
DetectedConfigurationUnchecked(c, length, head, tail) ==
    [c EXCEPT !.is_audio_file_head_length = Some(head),
              !.is_audio_file_process_length = Some(length - tail - head)]

\* lines 334-341: the configuration after head/tail detection
DetectedConfiguration(c, length, head, tail) ==
    [c EXCEPT !.is_audio_file_head_length = Some(Max(0, head)),
              !.is_audio_file_process_length = Some(Max(0, length - tail - head))]

\* the outcomes (success, configuration, length of the wave file on disk) of
\* _cut_head_tail on a wave file of the given length
CutHeadTailOutcomes(c, length) ==
    IF ~(Explicit(c) \/ Detect(c))
      THEN { [ok |-> TRUE, configuration |-> c, wav_len |-> length,
              loaded |-> FALSE, written |-> FALSE, detected |-> None] }
      ELSE LET heads == IF DetectHead(c) THEN DetectedLengths ELSE {0}
               tails == IF DetectTail(c) THEN DetectedLengths ELSE {0}
               \* the configuration trim reads, and the lengths detected
               settings == IF Explicit(c)
                             THEN { [configuration |-> c, detected |-> None] }
                             ELSE { [configuration |-> DetectedConfiguration(c, length, h, t),
                                     detected |-> Some([head |-> h, tail |-> t])] :
                                    h \in heads, t \in tails }
           IN  \* AudioFile(...).load_data() raised, or the detector did
               { [ok |-> FALSE, configuration |-> c, wav_len |-> length,
                  loaded |-> l, written |-> FALSE, detected |-> None] :
                 l \in IF Explicit(c) THEN {FALSE} ELSE BOOLEAN }
               \cup
               \* trim or write raised, after the configuration was set
               { [ok |-> FALSE, configuration |-> d.configuration, wav_len |-> length,
                  loaded |-> TRUE, written |-> FALSE, detected |-> d.detected] :
                 d \in settings }
               \cup
               { [ok |-> TRUE, configuration |-> d.configuration,
                  wav_len |-> TrimmedLength(length,
                                            d.configuration.is_audio_file_head_length,
                                            d.configuration.is_audio_file_process_length),
                  loaded |-> TRUE, written |-> TRUE, detected |-> d.detected] :
                 d \in settings }

Step2 ==
    /\ pc = "s2"
    /\ ran' = Append(ran, 2)
    /\ \E o \in CutHeadTailOutcomes(configuration, real_wav_len) :
          /\ configuration' = o.configuration
          /\ real_wav_len' = o.wav_len
          /\ cut_trace' = Some([loaded |-> o.loaded, written |-> o.written,
                                detected |-> o.detected])
          /\ IF o.ok
               THEN /\ pc' = "s3"
                    /\ UNCHANGED << result, cleanup_info, tmp_files, cleanups >>
               ELSE FailStage
    /\ UNCHANGED << task_vars, sync_map, local_vars, cancel, vad_wave_len,
                    dtw_wave_len, registered, probe_log >>

(***************************************************************************)
(* STEP 3 (lines 132-140) and _synthesize (lines 372-407)                  *)
(***************************************************************************)
NonDecreasing(t) == \A i \in 1..(Len(t) - 1) : t[i] <= t[i + 1]

\* the anchor lists the synthesizer can return for the fragments: anchor k
\* is the start time of the k-th fragment in the synthesized wave; the
\* times do not decrease.  The synthesizer may leave the last fragment out.
AnchorLists(fragments) ==
    UNION { { [k \in 1..n |-> [time |-> t[k], fragment_id |-> fragments[k]]] :
              t \in { u \in [1..n -> 0..MaxAnchor] : NonDecreasing(u) } } :
            n \in (Len(fragments) - 1)..Len(fragments) }

\* the quadruples (success, handler, path, anchors) _synthesize can return
SynthesizeOutcomes(fragments) ==
    { [ok |-> FALSE, handler |-> "None", path |-> "None", anchors |-> <<>>],
      [ok |-> FALSE, handler |-> "synt_handler", path |-> "synt.wav", anchors |-> <<>>] }
    \cup
    { [ok |-> TRUE, handler |-> "synt_handler", path |-> "synt.wav", anchors |-> a] :
      a \in AnchorLists(fragments) }

Step3 ==
    /\ pc = "s3"
    /\ ran' = Append(ran, 3)
    /\ \E c \in SynthesizeOutcomes(Val(text_file).fragments) :
          LET created == IF c.path = "None" THEN {} ELSE {c.path}
              registry == Register(cleanup_info, c.handler, c.path)
          IN /\ registered' = registry
             /\ IF c.ok
               THEN /\ cleanup_info' = registry
                    /\ tmp_files' = tmp_files \cup created
                    /\ synt_anchors' = c.anchors
                    /\ pc' = "s4"
                    /\ UNCHANGED << result, cleanups >>
               ELSE /\ Cleanup(registry, tmp_files \cup created)
                    /\ pc' = "done"
                    /\ result' = "False"
                    /\ UNCHANGED synt_anchors
    /\ UNCHANGED << task_vars, configuration, sync_map, real_wav_len,
                    real_full_wave_length, wave_map, text_map, translated_text_map,
                    adjusted_map, aliased, adjusted_in, cancel, vad_wave_len,
                    dtw_wave_len, cut_trace, probe_log >>

(***************************************************************************)
(* STEP 4 (lines 142-149) and _align_waves (lines 409-440)                 *)
(***************************************************************************)
\* the maps DTWAligner.computed_map can hold for a real wave of the given
\* length: one row [real_time, synt_time] per synthetic frame, the real
\* times not decreasing
WaveMaps(length) ==
    UNION { { [j \in 1..n |-> [real |-> r[j], synt |-> (j - 1) * Hop]] :
              r \in { u \in [1..n -> 0..length] : NonDecreasing(u) } } :
            n \in 1..MaxFrames }

\* the pairs (success, computed_map) _align_waves can return
AlignWavesOutcomes(length) ==
    { [ok |-> FALSE, computed_map |-> <<>>] }
    \cup
    IF length > 0
      THEN { [ok |-> TRUE, computed_map |-> w] : w \in WaveMaps(length) }
      ELSE {}

\* the length of the wave at real_trimmed_path, the file DTWAligner reads
\* (line 144); stage 2 has overwritten it with the trimmed audio
DtwWaveLength == real_wav_len

Step4 ==
    /\ pc = "s4"
    /\ ran' = Append(ran, 4)
    /\ dtw_wave_len' = Some(DtwWaveLength)
    /\ \E o \in AlignWavesOutcomes(DtwWaveLength) :
          IF o.ok
            THEN /\ wave_map' = o.computed_map
                 /\ pc' = "s5"
                 /\ UNCHANGED << result, cleanup_info, tmp_files, cleanups >>
            ELSE /\ FailStage
                 /\ UNCHANGED wave_map
    /\ UNCHANGED << task_vars, configuration, sync_map, real_wav_len,
                    real_full_wave_length, synt_anchors, text_map,
                    translated_text_map, adjusted_map, aliased, adjusted_in, cancel, vad_wave_len,
                    cut_trace, registered, probe_log >>

(***************************************************************************)
(* STEP 5 (lines 151-158) and _align_text (lines 442-496)                  *)
(***************************************************************************)
\* an argmin that returns the last index of the minimum
ArgMinLast(synt_times, time) ==
    CHOOSE i \in 1..Len(synt_times) :
        /\ \A j \in 1..Len(synt_times) :
              Abs(synt_times[i] - time) <= Abs(synt_times[j] - time)
        /\ \A j \in (i + 1)..Len(synt_times) :
              Abs(synt_times[j] - time) > Abs(synt_times[i] - time)

\* (numpy.abs(synt_times - time)).argmin(): the first index of the minimum
ArgMin(synt_times, time) ==
    CHOOSE i \in 1..Len(synt_times) :
        /\ \A j \in 1..Len(synt_times) :
              Abs(synt_times[i] - time) <= Abs(synt_times[j] - time)
        /\ \A j \in 1..(i - 1) :
              Abs(synt_times[j] - time) > Abs(synt_times[i] - time)

\* real anchors whose dummy last anchor is the first real time
RealAnchorsDummyAtFirstRow(wmap, anchors) ==
    LET real_times == [t \in 1..Len(wmap) |-> wmap[t].real]
        synt_times == [t \in 1..Len(wmap) |-> wmap[t].synt]
    IN  [k \in 1..(Len(anchors) + 1) |->
            IF k <= Len(anchors)
              THEN [time |-> real_times[ArgMin(synt_times, anchors[k].time)],
                    fragment_id |-> anchors[k].fragment_id]
              ELSE [time |-> real_times[1], fragment_id |-> "None"]]

\* lines 460-478: the real anchors, with the dummy last anchor
RealAnchors(wmap, anchors) ==
    LET real_times == [t \in 1..Len(wmap) |-> wmap[t].real]
        synt_times == [t \in 1..Len(wmap) |-> wmap[t].synt]
    IN  [k \in 1..(Len(anchors) + 1) |->
            IF k <= Len(anchors)
              THEN [time |-> real_times[ArgMin(synt_times, anchors[k].time)],
                    fragment_id |-> anchors[k].fragment_id]
              ELSE [time |-> real_times[Len(real_times)], fragment_id |-> "None"]]

\* an interval map whose fragments end where they start
IntervalMapOfInstants(real_anchors) ==
    [i \in 1..(Len(real_anchors) - 1) |->
        [start |-> real_anchors[i].time,
         end |-> real_anchors[i].time,
         fragment_id |-> real_anchors[i].fragment_id]]

\* lines 483-489: the interval map
IntervalMap(real_anchors) ==
    [i \in 1..(Len(real_anchors) - 1) |->
        [start |-> real_anchors[i].time,
         end |-> real_anchors[i + 1].time,
         fragment_id |-> real_anchors[i].fragment_id]]

\* the pair (success, computed_map); an empty wave map makes argmin (or
\* real_times[-1]) raise, which is caught
AlignText(wmap, anchors) ==
    IF Len(wmap) = 0
      THEN [ok |-> FALSE, computed_map |-> <<>>]
      ELSE [ok |-> TRUE, computed_map |-> IntervalMap(RealAnchors(wmap, anchors))]

Step5 ==
    /\ pc = "s5"
    /\ ran' = Append(ran, 5)
    /\ LET o == AlignText(wave_map, synt_anchors)
       IN IF o.ok
            THEN /\ text_map' = o.computed_map
                 /\ pc' = "s6"
                 /\ UNCHANGED << result, cleanup_info, tmp_files, cleanups >>
            ELSE /\ FailStage
                 /\ UNCHANGED text_map
    /\ UNCHANGED << task_vars, configuration, sync_map, real_wav_len,
                    real_full_wave_length, synt_anchors, wave_map,
                    translated_text_map, adjusted_map, aliased, adjusted_in, cancel, history_vars, probe_log >>

(***************************************************************************)
(* STEP 6 (lines 160-170) and _translate_text_map (lines 498-515)          *)
(***************************************************************************)
\* _translate_text_map with a TAIL that starts at the end of the last
\* fragment before the shift by the head length
TranslateTextMapTailUnshifted(tmap, full_length, c) ==
    IF Len(tmap) = 0
      THEN [ok |-> FALSE, translated |-> <<>>]
      ELSE LET head == SafeFloat(c.is_audio_file_head_length, 0)
               shifted == [i \in 1..Len(tmap) |->
                              [start |-> tmap[i].start + head,
                               end |-> tmap[i].end + head,
                               fragment_id |-> tmap[i].fragment_id]]
           IN [ok |-> TRUE,
               translated |->
                   << [start |-> 0, end |-> head, fragment_id |-> "None"] >>
                   \o shifted
                   \o << [start |-> tmap[Len(tmap)].end,
                          end |-> full_length,
                          fragment_id |-> "None"] >>]

\* _translate_text_map that leaves the fragments where they were in the
\* trimmed audio
TranslateTextMapFragmentsUnshifted(tmap, full_length, c) ==
    IF Len(tmap) = 0
      THEN [ok |-> FALSE, translated |-> <<>>]
      ELSE LET head == SafeFloat(c.is_audio_file_head_length, 0)
           IN [ok |-> TRUE,
               translated |->
                   << [start |-> 0, end |-> head, fragment_id |-> "None"] >>
                   \o tmap
                   \o << [start |-> tmap[Len(tmap)].end + head,
                          end |-> full_length,
                          fragment_id |-> "None"] >>]

TranslateTextMap(tmap, full_length, c) ==
    IF Len(tmap) = 0
      THEN [ok |-> FALSE, translated |-> <<>>]
      ELSE LET head == SafeFloat(c.is_audio_file_head_length, 0)
               shifted == [i \in 1..Len(tmap) |->
                              [start |-> tmap[i].start + head,
                               end |-> tmap[i].end + head,
                               fragment_id |-> tmap[i].fragment_id]]
           IN [ok |-> TRUE,
               translated |->
                   << [start |-> 0, end |-> head, fragment_id |-> "None"] >>
                   \o shifted
                   \o << [start |-> tmap[Len(tmap)].end + head,
                          end |-> full_length,
                          fragment_id |-> "None"] >>]

Step6 ==
    /\ pc = "s6"
    /\ ran' = Append(ran, 6)
    /\ LET o == TranslateTextMap(text_map, real_full_wave_length, configuration)
       IN IF o.ok
            THEN /\ translated_text_map' = o.translated
                 /\ pc' = "s7"
                 /\ UNCHANGED << result, cleanup_info, tmp_files, cleanups >>
            ELSE /\ FailStage
                 /\ UNCHANGED translated_text_map
    /\ UNCHANGED << task_vars, configuration, sync_map, real_wav_len,
                    real_full_wave_length, synt_anchors, wave_map, text_map,
                    adjusted_map, aliased, adjusted_in, cancel, history_vars, probe_log >>

(***************************************************************************)
(* STEP 7 (lines 172-183) and _adjust_boundaries (lines 517-581)           *)
(***************************************************************************)
\* AdjustBoundaryAlgorithm.adjust(): the interval lists it can return for
\* the list m = HEAD, fragments, TAIL.  Only the boundaries between two
\* consecutive fragments move; order and contiguity are kept.
InteriorBoundaries(m) == 2..(Len(m) - 2)

MovedBoundaries(m) ==
    { b \in [InteriorBoundaries(m) -> 0..MaxLen] :
        /\ \A i \in InteriorBoundaries(m) : m[i].start <= b[i] /\ b[i] <= m[i + 1].end
        /\ \A i \in InteriorBoundaries(m) :
              (i + 1) \in InteriorBoundaries(m) => b[i] <= b[i + 1] }

Adjustments(m) ==
    {m} \cup
    { [i \in 1..Len(m) |->
          [start |-> IF (i - 1) \in InteriorBoundaries(m) THEN b[i - 1] ELSE m[i].start,
           end |-> IF i \in InteriorBoundaries(m) THEN b[i] ELSE m[i].end,
           fragment_id |-> m[i].fragment_id]] :
      b \in MovedBoundaries(m) }

\* what _adjust_boundaries can do: return (True, map), return (False, None)
\* when VAD raised, or let an exception of AdjustBoundaryAlgorithm escape
\* (lines 568-578 are outside the try block).  same_object says whether the
\* list returned is the list passed in.
AdjustBoundariesOutcomes(m, c) ==
    IF c.adjust_boundary_algorithm \in NoAdjustment
      THEN { [kind |-> "ok", map |-> m, same_object |-> TRUE, vad |-> FALSE] }
      ELSE { [kind |-> "failed", map |-> <<>>, same_object |-> FALSE, vad |-> TRUE],
             [kind |-> "raised", map |-> <<>>, same_object |-> FALSE, vad |-> TRUE] }
           \cup
           { [kind |-> "ok", map |-> a, same_object |-> o, vad |-> TRUE] :
             a \in Adjustments(m), o \in BOOLEAN }

\* a VAD fed with the length of the trimmed wave
VadWaveLengthTrimmed == real_wav_len

\* vad.wave_len (line 560): execute passes real_full_wave_length, the length
\* stage 1 measured before stage 2 trimmed the file (lines 174-178)
VadWaveLength == real_full_wave_length

Step7 ==
    /\ pc = "s7"
    /\ ran' = Append(ran, 7)
    /\ \E o \in AdjustBoundariesOutcomes(translated_text_map, configuration) :
        /\ vad_wave_len' = IF o.vad THEN Some(VadWaveLength) ELSE vad_wave_len
        /\ CASE o.kind = "ok" ->
                 /\ adjusted_map' = o.map
                 /\ aliased' = o.same_object
                 /\ pc' = "s8"
                 /\ UNCHANGED << result, cleanup_info, tmp_files, cleanups >>
            [] o.kind = "failed" ->
                 /\ FailStage
                 /\ UNCHANGED << adjusted_map, aliased >>
            [] o.kind = "raised" ->
                 \* the exception leaves execute: no cleanup, no return value
                 /\ pc' = "done"
                 /\ result' = "raised"
                 /\ UNCHANGED << adjusted_map, aliased, cleanup_info, tmp_files,
                                 cleanups >>
    /\ UNCHANGED << task_vars, configuration, sync_map, real_wav_len,
                    real_full_wave_length, synt_anchors, wave_map, text_map,
                    translated_text_map, adjusted_in, cancel, dtw_wave_len,
                    cut_trace, registered, probe_log >>

(***************************************************************************)
(* STEP 8 (lines 185-192) and _create_syncmap (lines 583-647)              *)
(***************************************************************************)
\* a stretching that forgets the end of the last fragment
StretchStartOnly(m) ==
    [m EXCEPT ![2].start = m[1].start]

\* lines 620-624: the first fragment starts where HEAD starts, the last
\* fragment ends where TAIL ends (the list is changed in place)
Stretch(m) ==
    [m EXCEPT ![2].start = m[1].start, ![Len(m) - 1].end = m[Len(m)].end]

\* a stretching applied whenever HEAD and TAIL are left out
StretchedUnlessAdd(m, format) ==
    IF format \in {"STRETCH", "HIDDEN"}
      THEN [m EXCEPT ![2].start = m[1].start, ![Len(m) - 1].end = m[Len(m)].end]
      ELSE m

\* the interval list after lines 613-624
Stretched(m, format) == IF format = "STRETCH" THEN Stretch(m) ELSE m

HeadFragment(m) ==
    [text_fragment |-> "HEAD", begin |-> m[1].start, end |-> m[1].end]

TailFragment(m) ==
    [text_fragment |-> "TAIL", begin |-> m[Len(m)].start, end |-> m[Len(m)].end]

\* the text fragments paired with the intervals in reverse order
TextFragmentsReversed(m, fragments) ==
    [k \in 1..Len(fragments) |->
        [text_fragment |-> fragments[Len(fragments) + 1 - k],
         begin |-> m[k + 1].start, end |-> m[k + 1].end]]

\* lines 626-632: one sync map fragment per text fragment, in text order
TextFragments(m, fragments) ==
    [k \in 1..Len(fragments) |->
        [text_fragment |-> fragments[k], begin |-> m[k + 1].start, end |-> m[k + 1].end]]

\* a sync map that gets HEAD and TAIL entries unless the format is HIDDEN
BuildSyncMapHeadTailUnlessHidden(m, fragments, format) ==
    LET st == IF format = "STRETCH"
                THEN [m EXCEPT ![2].start = m[1].start, ![Len(m) - 1].end = m[Len(m)].end]
                ELSE m
        entries == [k \in 1..Len(fragments) |->
                       [text_fragment |-> fragments[k],
                        begin |-> st[k + 1].start, end |-> st[k + 1].end]]
        head == [text_fragment |-> "HEAD", begin |-> m[1].start, end |-> m[1].end]
        tail == [text_fragment |-> "TAIL", begin |-> m[Len(m)].start, end |-> m[Len(m)].end]
    IN  (IF format # "HIDDEN" THEN << head >> ELSE <<>>)
        \o entries
        \o (IF format # "HIDDEN" THEN << tail >> ELSE <<>>)

\* lines 597-641: the sync map built from the interval list m
BuildSyncMap(m, fragments, format) ==
    LET st == Stretched(m, format)
    IN  (IF format = "ADD" THEN << HeadFragment(m) >> ELSE <<>>)
        \o TextFragments(st, fragments)
        \o (IF format = "ADD" THEN << TailFragment(m) >> ELSE <<>>)

\* a _create_syncmap that stores the sync map in the task before the work
\* that can still fail
CreateSyncmapStoresEarly(m, fragments, format, old_sync_map) ==
    IF Len(m) # Len(fragments) + 2
      THEN { [ok |-> FALSE, sync_map |-> old_sync_map, map |-> m] }
      ELSE { [ok |-> FALSE, sync_map |-> Some(<<>>), map |-> m],
             [ok |-> TRUE,
              sync_map |-> Some([k \in 1..Len(fragments) |->
                                   [text_fragment |-> fragments[k],
                                    begin |-> m[k + 1].start, end |-> m[k + 1].end]]),
              map |-> m] }

\* line 593
LengthMatches(m, fragments) == Len(m) = Len(fragments) + 2

\* the outcomes (success, task.sync_map, the interval list afterwards) of
\* _create_syncmap; an exception inside the try block (before or after the
\* stretching) leaves task.sync_map alone
CreateSyncmapOutcomes(m, fragments, format, old_sync_map) ==
    IF ~LengthMatches(m, fragments)
      THEN { [ok |-> FALSE, sync_map |-> old_sync_map, map |-> m] }
      ELSE { [ok |-> FALSE, sync_map |-> old_sync_map, map |-> m],
             [ok |-> FALSE, sync_map |-> old_sync_map, map |-> Stretched(m, format)],
             [ok |-> TRUE, sync_map |-> Some(BuildSyncMap(m, fragments, format)),
              map |-> Stretched(m, format)] }

Step8 ==
    /\ pc = "s8"
    /\ ran' = Append(ran, 8)
    /\ adjusted_in' = adjusted_map
    /\ \E o \in CreateSyncmapOutcomes(adjusted_map, Val(text_file).fragments,
                                      configuration.os_file_head_tail_format,
                                      sync_map) :
          /\ sync_map' = o.sync_map
          /\ adjusted_map' = o.map
          /\ translated_text_map' = IF aliased THEN o.map ELSE translated_text_map
          /\ IF o.ok
               THEN /\ pc' = "s9"
                    /\ UNCHANGED << result, cleanup_info, tmp_files, cleanups >>
               ELSE FailStage
    /\ UNCHANGED << task_vars, configuration, real_wav_len, real_full_wave_length,
                    synt_anchors, wave_map, text_map, aliased, cancel, history_vars, probe_log >>

(***************************************************************************)
(* STEP 9 (lines 194-199): cleanup, return True                            *)
(***************************************************************************)
Step9 ==
    /\ pc = "s9"
    /\ ran' = Append(ran, 9)
    /\ Cleanup(cleanup_info, tmp_files)
    /\ pc' = "done"
    /\ result' = "True"
    /\ UNCHANGED << task_vars, configuration, sync_map, real_wav_len, local_vars, cancel, history_vars, probe_log >>

(***************************************************************************)
(* The caller raises its cancellation signal while execute is running.     *)
(* execute() takes no such signal and never reads it.                      *)
(***************************************************************************)
Cancel ==
    /\ pc \notin {"ready", "done"}
    /\ IsNone(cancel)
    /\ cancel' = Some(Len(ran))
    /\ UNCHANGED << pc, result, task_vars, configuration, sync_map, cleanup_info,
                    tmp_files, real_wav_len, local_vars, ran, cleanups,
                    history_vars, probe_log >>

Next ==
    \/ Execute
    \/ Step0
    \/ Step1
    \/ Step2
    \/ Step3
    \/ Step4
    \/ Step5
    \/ Step6
    \/ Step7
    \/ Step8
    \/ Step9

Spec == Init /\ [][Next]_vars

\* the pipeline with a caller that may raise its cancellation signal
SpecCancel == Init /\ [][Next \/ Cancel]_vars

(***************************************************************************)
(* FFPROBEWrapper.read_properties, as tests/test_ffprobewrapper.py uses it. *)
(* The wrapper itself (aeneas/ffprobewrapper.py) is not among the sources;  *)
(* its outcomes are the ones the tests expect.                              *)
(***************************************************************************)
MaxProbes == 2

\* TestFFPROBEWrapper.FILES
AudioFormatPaths ==
    { "res/audioformats/p001.aac", "res/audioformats/p001.aiff",
      "res/audioformats/p001.flac", "res/audioformats/p001.mp3",
      "res/audioformats/p001.mp4", "res/audioformats/p001.ogg",
      "res/audioformats/p001.wav", "res/audioformats/p001.webm" }

NOT_EXISTING_PATH == "this_file_does_not_exist.mp3"
EMPTY_FILE_PATH == "res/audioformats/p001.empty"

ProbePaths == AudioFormatPaths \cup {NOT_EXISTING_PATH, EMPTY_FILE_PATH}

\* what is on disk at a path of the test resources
FileState(path) ==
    CASE path = NOT_EXISTING_PATH -> "missing"
      [] path = EMPTY_FILE_PATH -> "empty"
      [] OTHER -> "audio"

\* the properties dictionary of an audio stream: every key the tests read is set
StreamProperties ==
    [bit_rate |-> "set", channels |-> "set", codec_name |-> "set",
     duration |-> "set", sample_rate |-> "set"]

\* a wrapper that hands ffprobe's (empty) answer on an empty file back
ReadPropertiesOfAnyFile(path) ==
    CASE FileState(path) = "missing" -> [raised |-> "OSError", properties |-> None]
      [] OTHER -> [raised |-> "None", properties |-> Some(StreamProperties)]

\* prober.read_properties(path): the exception raised ("None" when it
\* returns) and the dictionary returned
ReadProperties(path) ==
    CASE FileState(path) = "missing" -> [raised |-> "OSError", properties |-> None]
      [] FileState(path) = "empty" -> [raised |-> "ValueError", properties |-> None]
      [] OTHER -> [raised |-> "None", properties |-> Some(StreamProperties)]

\* TestFFPROBEWrapper.load(input_file_path)
Load ==
    /\ Len(probe_log) < MaxProbes
    /\ \E path \in ProbePaths :
          probe_log' = Append(probe_log, [path |-> path, outcome |-> ReadProperties(path)])
    /\ UNCHANGED << pc, result, task_vars, configuration, sync_map, cleanup_info,
                    tmp_files, real_wav_len, local_vars, ran, cleanups, cancel,
                    history_vars >>

\* no task is being executed while the wrapper is exercised
InitProbe ==
    /\ pc = "ready"
    /\ result = "none"
    /\ audio_file = None
    /\ text_file = None
    /\ configuration \in { c \in Configurations :
                              /\ c.adjust_boundary_algorithm = "None"
                              /\ c.os_file_head_tail_format = "None"
                              /\ ~Explicit(c) /\ ~Detect(c) }
    /\ sync_map = None
    /\ cleanup_info = <<>>
    /\ tmp_files = {}
    /\ real_wav_len = 0
    /\ real_full_wave_length = 0
    /\ synt_anchors = <<>>
    /\ wave_map = <<>>
    /\ text_map = <<>>
    /\ translated_text_map = <<>>
    /\ adjusted_map = <<>>
    /\ aliased = FALSE
    /\ ran = <<>>
    /\ cleanups = 0
    /\ adjusted_in = <<>>
    /\ cancel = None
    /\ vad_wave_len = None
    /\ dtw_wave_len = None
    /\ cut_trace = None
    /\ registered = <<>>
    /\ probe_log = <<>>

NextProbe ==
    \/ Load

SpecProbe == InitProbe /\ [][NextProbe]_vars

(***************************************************************************)
(* _align_text and _translate_text_map called on arbitrary arguments: any   *)
(* list of rows [real_time, synt_time] (empty, unordered, with repeated     *)
(* synt times) and any list of anchors, not only those the earlier stages   *)
(* produce.                                                                 *)
(***************************************************************************)
WaveMapRows == [real : 0..MaxLen, synt : 0..MaxAnchor]

AnyWaveMaps == UNION { [1..n -> WaveMapRows] : n \in 0..MaxFrames }

AnyAnchorLists ==
    UNION { { [k \in 1..n |-> [time |-> t[k], fragment_id |-> FragmentIds[k]]] :
              t \in [1..n -> 0..MaxAnchor] } :
            n \in 0..MaxFrags }

\* scenario 3 of the specification: three fragments with anchors 0, 1, 2 on
\* an audio of duration 3 that equals its synthesis, one row per second
ScenarioDuration == 3
ScenarioWaveMap == [j \in 1..ScenarioDuration |-> [real |-> j - 1, synt |-> j - 1]]
ScenarioAnchors ==
    [k \in 1..ScenarioDuration |-> [time |-> k - 1, fragment_id |-> FragmentIds[k]]]

\* no head length, or a head length of 1
StageConfigurations ==
    { c \in Configurations :
        /\ c.adjust_boundary_algorithm = "None"
        /\ c.os_file_head_tail_format = "None"
        /\ IsNone(c.is_audio_file_process_length)
        /\ ~Detect(c) }

InitStages ==
    /\ pc = "a5"
    /\ result = "none"
    /\ audio_file = None
    /\ text_file = None
    /\ configuration \in StageConfigurations
    /\ sync_map = None
    /\ cleanup_info = <<>>
    /\ tmp_files = {}
    /\ real_wav_len = 0
    /\ real_full_wave_length = MaxLen
    /\ \E arguments \in (AnyWaveMaps \X AnyAnchorLists)
                           \cup { << ScenarioWaveMap, ScenarioAnchors >> } :
          /\ wave_map = arguments[1]
          /\ synt_anchors = arguments[2]
    /\ text_map = <<>>
    /\ translated_text_map = <<>>
    /\ adjusted_map = <<>>
    /\ aliased = FALSE
    /\ ran = <<>>
    /\ cleanups = 0
    /\ adjusted_in = <<>>
    /\ cancel = None
    /\ vad_wave_len = None
    /\ dtw_wave_len = None
    /\ cut_trace = None
    /\ registered = <<>>
    /\ probe_log = <<>>

\* result, text_map = self._align_text(wave_map, synt_anchors)
AlignTextCall ==
    /\ pc = "a5"
    /\ LET o == AlignText(wave_map, synt_anchors)
       IN IF o.ok
            THEN /\ text_map' = o.computed_map
                 /\ pc' = "a6"
                 /\ UNCHANGED result
            ELSE /\ pc' = "done"
                 /\ result' = "False"
                 /\ UNCHANGED text_map
    /\ UNCHANGED << task_vars, configuration, sync_map, cleanup_info, tmp_files,
                    real_wav_len, real_full_wave_length, synt_anchors, wave_map,
                    translated_text_map, adjusted_map, aliased, adjusted_in, ran,
                    cleanups, cancel, history_vars, probe_log >>

\* result, translated_text_map = self._translate_text_map(text_map, real_full_wave_length)
TranslateTextMapCall ==
    /\ pc = "a6"
    /\ LET o == TranslateTextMap(text_map, real_full_wave_length, configuration)
       IN IF o.ok
            THEN /\ translated_text_map' = o.translated
                 /\ pc' = "a7"
                 /\ UNCHANGED result
            ELSE /\ pc' = "done"
                 /\ result' = "False"
                 /\ UNCHANGED translated_text_map
    /\ UNCHANGED << task_vars, configuration, sync_map, cleanup_info, tmp_files,
                    real_wav_len, real_full_wave_length, synt_anchors, wave_map,
                    text_map, adjusted_map, aliased, adjusted_in, ran,
                    cleanups, cancel, history_vars, probe_log >>

NextStages ==
    \/ AlignTextCall
    \/ TranslateTextMapCall

SpecStages == InitStages /\ [][NextStages]_vars

(***************************************************************************)
(* Properties                                                              *)
(***************************************************************************)
Returned == pc = "done" /\ result \in {"True", "False"}
Succeeded == pc = "done" /\ result = "True"
Failed == pc = "done" /\ result = "False"

Fragments == Val(text_file).fragments
Format == configuration.os_file_head_tail_format
SyncMapList == Val(sync_map)

\* index in the sync map of the entry of the k-th text fragment
EntryOf(k) == IF Format = "ADD" THEN k + 1 ELSE k

\* C1: after every call of execute, no temporary file created by the run
\* (the real wave file of stage 0, the synthesized wave file of stage 3)
\* still exists.
C1_NoTempFileAfterExecute ==
    pc = "done" => tmp_files = {}

\* C2: whenever execute reports failure the task's sync map is what it was
\* before the call; task.sync_map is written only on the path on which
\* stage 8 succeeds and execute then returns success.
C2_FailureLeavesSyncMap ==
    /\ Failed => sync_map = None
    /\ sync_map # None => (pc = "s9" \/ Succeeded)

C2_Witness ==
    /\ Failed
    /\ ran = <<0, 1, 2, 3, 4, 5, 6, 7, 8>>
    /\ Len(adjusted_in) = Len(Fragments) + 2
    /\ sync_map = None

\* C3: on success the sync map has one entry per text fragment, plus two
\* (HEAD and TAIL) exactly when the head/tail format is ADD.
C3_SyncMapLength ==
    Succeeded =>
        Len(SyncMapList) = Len(Fragments) + (IF Format = "ADD" THEN 2 ELSE 0)

C3_Witness ==
    /\ Succeeded
    /\ Format = "ADD"
    /\ Len(Fragments) = 2
    /\ Len(SyncMapList) = 4

\* C4: on success with head/tail format ADD or STRETCH the sync map covers
\* [0, full audio length] exactly: the first entry starts at 0, the last
\* ends at the full length, and every entry starts where the previous ends.
C4_CoversWholeAudio ==
    (Succeeded /\ Format \in {"ADD", "STRETCH"}) =>
        /\ SyncMapList[1].begin = 0
        /\ SyncMapList[Len(SyncMapList)].end = real_full_wave_length
        /\ \A i \in 1..(Len(SyncMapList) - 1) :
              SyncMapList[i + 1].begin = SyncMapList[i].end

\* C5: on success, when the real times of the wave map and the synth
\* anchors do not decrease, consecutive sync map entries satisfy
\* end_i <= end_(i+1) and start_(i+1) >= end_i.
C5_Monotone ==
    (/\ Succeeded
     /\ NonDecreasing([j \in 1..Len(wave_map) |-> wave_map[j].real])
     /\ NonDecreasing([k \in 1..Len(synt_anchors) |-> synt_anchors[k].time])) =>
        \A i \in 1..(Len(SyncMapList) - 1) :
            /\ SyncMapList[i].end <= SyncMapList[i + 1].end
            /\ SyncMapList[i + 1].begin >= SyncMapList[i].end

C5_Witness ==
    /\ Succeeded
    /\ Format = "ADD"
    /\ Len(SyncMapList) = 4
    /\ SyncMapList[1].end > 0
    /\ SyncMapList[2].begin = SyncMapList[1].end
    /\ SyncMapList[2].end < SyncMapList[3].end
    /\ SyncMapList[4].begin < SyncMapList[4].end

\* C6: when a stage reports failure execute stops there: the stages that
\* ran are 0..s in order, each once, the cleanup registry was run (once,
\* and nothing runs after it), and execute returns failure.
C6_AbortsAtFirstFailure ==
    /\ cleanups > 0 => (pc = "done" /\ cleanups = 1 /\ cleanup_info = <<>>)
    /\ (Failed /\ ran # <<>>) =>
          /\ ran = [i \in 1..Len(ran) |-> i - 1]
          /\ cleanups = 1
    /\ pc = "done" => result # "none"

C6_Witness ==
    /\ Failed
    /\ ran = <<0, 1, 2, 3, 4>>
    /\ cleanups = 1
    /\ Len(cleanup_info) = 0

\* C7: when the cancellation signal is raised after stage 1, execute
\* releases its temporaries and returns Cancelled without running the
\* remaining stages.
C7_CancelAfterStage1 ==
    (pc = "done" /\ cancel = Some(2)) =>
        /\ result = "Cancelled"
        /\ ran = <<0, 1>>
        /\ tmp_files = {}

\* the real time onto which the k-th synth anchor is projected (the real
\* time of the last row of the wave map for k past the last anchor)
ProjectedTime(k) ==
    IF k <= Len(synt_anchors)
      THEN wave_map[ArgMin([j \in 1..Len(wave_map) |-> wave_map[j].synt],
                           synt_anchors[k].time)].real
      ELSE wave_map[Len(wave_map)].real

HeadLength == SafeFloat(configuration.is_audio_file_head_length, 0)

\* C8: fragment order is preserved end to end: on success the k-th entry
\* that is not HEAD or TAIL carries the k-th fragment of the text file, the
\* k-th interval handed to stage 8 belongs to the k-th synth anchor, and
\* (without boundary adjustment or stretching) the entry's interval is the
\* one projected from the k-th synth anchor, shifted by the head length.
C8_OrderPreserved ==
    Succeeded =>
        \A k \in 1..Len(Fragments) :
            LET entry == SyncMapList[EntryOf(k)]
            IN  /\ entry.text_fragment = Fragments[k]
                /\ synt_anchors[k].fragment_id = Fragments[k]
                /\ text_map[k].fragment_id = Fragments[k]
                /\ adjusted_in[k + 1].fragment_id = Fragments[k]
                /\ (/\ configuration.adjust_boundary_algorithm \in NoAdjustment
                    /\ Format # "STRETCH") =>
                       /\ entry.begin = ProjectedTime(k) + HeadLength
                       /\ entry.end = ProjectedTime(k + 1) + HeadLength

C8_Witness ==
    /\ Succeeded
    /\ Len(Fragments) = 2
    /\ Format = "ADD"
    /\ configuration.adjust_boundary_algorithm = "None"
    /\ HeadLength = 1
    /\ SyncMapList[2] = [text_fragment |-> Fragments[1], begin |-> 1, end |-> 2]
    /\ SyncMapList[3] = [text_fragment |-> Fragments[2], begin |-> 2, end |-> 2]

\* C9: with head/tail format STRETCH the sync map has no HEAD or TAIL
\* entry, its first entry starts at 0, its last entry ends at the full
\* audio length, and every other boundary is that of the interval list
\* handed to stage 8 (a single fragment spans [0, full length]).
C9_Stretch ==
    (Succeeded /\ Format = "STRETCH") =>
        LET n == Len(Fragments)
        IN  /\ Len(SyncMapList) = n
            /\ \A k \in 1..n : SyncMapList[k].text_fragment \notin {"HEAD", "TAIL"}
            /\ SyncMapList[1].begin = 0
            /\ SyncMapList[n].end = real_full_wave_length
            /\ \A k \in 2..n : SyncMapList[k].begin = adjusted_in[k + 1].start
            /\ \A k \in 1..(n - 1) : SyncMapList[k].end = adjusted_in[k + 1].end

C9_Witness ==
    /\ Succeeded
    /\ Format = "STRETCH"
    /\ Len(Fragments) = 1
    /\ adjusted_in[2].start > 0
    /\ adjusted_in[2].end < real_full_wave_length
    /\ SyncMapList = << [text_fragment |-> Fragments[1], begin |-> 0,
                         end |-> real_full_wave_length] >>

\* C10: with head/tail format HIDDEN the sync map has no HEAD or TAIL entry
\* and every entry has the start and the end of the corresponding interval
\* of the list handed to stage 8, which is left as it was.
C10_Hidden ==
    (Succeeded /\ Format = "HIDDEN") =>
        LET n == Len(Fragments)
        IN  /\ Len(SyncMapList) = n
            /\ \A k \in 1..n :
                  /\ SyncMapList[k].text_fragment \notin {"HEAD", "TAIL"}
                  /\ SyncMapList[k].begin = adjusted_in[k + 1].start
                  /\ SyncMapList[k].end = adjusted_in[k + 1].end
            /\ adjusted_map = adjusted_in

C10_Witness ==
    /\ Succeeded
    /\ Format = "HIDDEN"
    /\ Len(Fragments) = 2
    /\ adjusted_in[1].end > 0
    /\ adjusted_in[4].start < adjusted_in[4].end
    /\ SyncMapList[1].begin = adjusted_in[2].start
    /\ SyncMapList[1].begin > 0
    /\ SyncMapList[2].end < real_full_wave_length


C12_StagesLeaveInputs ==
    [][ /\ (pc # "s0" => real_wav_len' = real_wav_len)
        /\ (pc # "s6" => translated_text_map' = translated_text_map)
        /\ (pc # "s7" => adjusted_map' = adjusted_map) ]_vars

(***************************************************************************)
(* Properties of _align_text and _translate_text_map on arbitrary arguments *)
(***************************************************************************)
\* _align_text has returned its interval list
Projected == pc = "a6"

RECURSIVE SumOfDurations(_, _)
SumOfDurations(m, n) ==
    IF n = 0 THEN 0 ELSE (m[n].end - m[n].start) + SumOfDurations(m, n - 1)

StartsNonDecreasing(m) ==
    \A i, j \in 1..Len(m) : i <= j => m[i].start <= m[j].start

StartNotAfterEnd(m) ==
    \A i \in 1..Len(m) : m[i].start <= m[i].end

\* the real and the synth times of the wave map do not decrease along its
\* rows, and the anchor times do not decrease along the fragments
OrderedArguments ==
    /\ \A i, j \in 1..Len(wave_map) :
          i <= j => /\ wave_map[i].real <= wave_map[j].real
                    /\ wave_map[i].synt <= wave_map[j].synt
    /\ \A i, j \in 1..Len(synt_anchors) :
          i <= j => synt_anchors[i].time <= synt_anchors[j].time

\* C13 (as claimed): for any wave map W and any K anchors the K intervals
\* of _align_text have non-decreasing starts, each start <= end, and their
\* durations sum to W.last.real - W.first.real.
C13_ProjectionGuarantees ==
    Projected =>
        /\ Len(text_map) = Len(synt_anchors)
        /\ StartsNonDecreasing(text_map)
        /\ StartNotAfterEnd(text_map)
        /\ SumOfDurations(text_map, Len(text_map))
              = wave_map[Len(wave_map)].real - wave_map[1].real

\* C13 (amended): for any non-empty wave map W and any K >= 1 anchors,
\* _align_text returns K intervals whose durations sum to W.last.real minus
\* the start of the first interval, hence to W.last.real - W.first.real
\* when the first interval starts at W.first.real; when the real times and
\* the synth times of W and the anchor times are non-decreasing, the starts
\* are non-decreasing and every interval has start <= end.
C13_ProjectionGuaranteesOrdered ==
    Projected =>
        /\ Len(text_map) = Len(synt_anchors)
        /\ Len(text_map) >= 1 =>
              /\ SumOfDurations(text_map, Len(text_map))
                    = wave_map[Len(wave_map)].real - text_map[1].start
              /\ text_map[1].start = wave_map[1].real =>
                    SumOfDurations(text_map, Len(text_map))
                      = wave_map[Len(wave_map)].real - wave_map[1].real
        /\ OrderedArguments =>
              StartsNonDecreasing(text_map) /\ StartNotAfterEnd(text_map)

\* ordered arguments and two fragments, the first of which starts after the
\* first real time of the wave map: the durations sum to less than
\* W.last.real - W.first.real
C13_Witness ==
    /\ Projected
    /\ OrderedArguments
    /\ Len(text_map) = 2
    /\ text_map[1].start > wave_map[1].real
    /\ SumOfDurations(text_map, 2) < wave_map[Len(wave_map)].real - wave_map[1].real

\* row i of the wave map is as close to the synth time as any row
ClosestRow(i, time) ==
    \A j \in 1..Len(wave_map) :
        Abs(wave_map[i].synt - time) <= Abs(wave_map[j].synt - time)

\* C14: the projected real start of each anchor is the real time of the
\* wave-map row whose synth time is closest to the anchor's, the smallest
\* row index on ties; fragment k spans [real_k, real_{k+1}], the
\* pseudo-anchor after the last fragment being the real time of the last row.
C14_NearestRowProjection ==
    Projected =>
        /\ Len(text_map) = Len(synt_anchors)
        /\ \A k \in 1..Len(text_map) :
              /\ \E i \in 1..Len(wave_map) :
                    /\ ClosestRow(i, synt_anchors[k].time)
                    /\ \A j \in 1..(i - 1) : ~ClosestRow(j, synt_anchors[k].time)
                    /\ text_map[k].start = wave_map[i].real
              /\ text_map[k].end = IF k < Len(text_map)
                                     THEN text_map[k + 1].start
                                     ELSE wave_map[Len(wave_map)].real
              /\ text_map[k].fragment_id = synt_anchors[k].fragment_id

\* an anchor equally close to two rows with different real times starts at
\* the real time of the first of them, and the last fragment ends at the
\* real time of the last row
C14_Witness ==
    /\ Projected
    /\ Len(text_map) = 2
    /\ Len(wave_map) = 2
    /\ ClosestRow(1, synt_anchors[1].time)
    /\ ClosestRow(2, synt_anchors[1].time)
    /\ wave_map[1].real # wave_map[2].real
    /\ text_map[1].start = wave_map[1].real
    /\ text_map[2].end = wave_map[2].real

\* every row of the wave map has its real time equal to its synth time
IdentityWaveMap ==
    \A i \in 1..Len(wave_map) : wave_map[i].real = wave_map[i].synt

\* every anchor is the synth time of some row
AnchorsOnRows ==
    \A k \in 1..Len(synt_anchors) :
        \E i \in 1..Len(wave_map) : wave_map[i].synt = synt_anchors[k].time

\* the distance between two rows of the scenario's wave map
ScenarioHop == ScenarioWaveMap[2].synt - ScenarioWaveMap[1].synt

\* C15: when the wave map is the identity and every anchor coincides with
\* a row, fragment k starts at anchor k and ends at anchor k+1, the last
\* one at the last row's time; for anchors [0, 1, 2] over a duration of 3
\* the intervals are [0,1], [1,2], [2,3] within one hop.
C15_IdentityProjection ==
    /\ (Projected /\ IdentityWaveMap /\ AnchorsOnRows) =>
          /\ Len(text_map) = Len(synt_anchors)
          /\ \A k \in 1..Len(text_map) :
                /\ text_map[k].start = synt_anchors[k].time
                /\ text_map[k].end = IF k < Len(text_map)
                                       THEN synt_anchors[k + 1].time
                                       ELSE wave_map[Len(wave_map)].real
    /\ (Projected /\ wave_map = ScenarioWaveMap /\ synt_anchors = ScenarioAnchors) =>
          /\ Len(text_map) = ScenarioDuration
          /\ \A k \in 1..Len(text_map) :
                /\ Abs(text_map[k].start - (k - 1)) <= ScenarioHop
                /\ Abs(text_map[k].end - k) <= ScenarioHop
          /\ Abs(text_map[Len(text_map)].end - ScenarioDuration) <= ScenarioHop

\* the scenario has been projected: [0,1], [1,2] and, one hop short of the
\* duration, [2,2]
C15_Witness ==
    /\ Projected
    /\ wave_map = ScenarioWaveMap
    /\ synt_anchors = ScenarioAnchors
    /\ IdentityWaveMap /\ AnchorsOnRows
    /\ text_map = << [start |-> 0, end |-> 1, fragment_id |-> "f000001"],
                     [start |-> 1, end |-> 2, fragment_id |-> "f000002"],
                     [start |-> 2, end |-> 2, fragment_id |-> "f000003"] >>

\* _translate_text_map has returned its interval list
Translated == pc = "a7"

\* the head length configured, 0 when there is none
ConfiguredHead ==
    IF IsNone(configuration.is_audio_file_head_length)
      THEN 0
      ELSE Val(configuration.is_audio_file_head_length)

\* C16: re-translation of a non-empty list of K intervals yields K+2
\* intervals: every start and end shifted by head_length (0 when none is
\* configured), preceded by HEAD = [0, head_length] and followed by
\* TAIL = [shifted end of the last fragment, full audio length], both
\* without fragment; an empty list makes the stage fail.
C16_ReTranslation ==
    /\ Translated =>
          LET K == Len(text_map)
              t == translated_text_map
          IN /\ K >= 1
             /\ Len(t) = K + 2
             /\ \A k \in 1..K :
                   /\ t[k + 1].start = text_map[k].start + ConfiguredHead
                   /\ t[k + 1].end = text_map[k].end + ConfiguredHead
                   /\ t[k + 1].fragment_id = text_map[k].fragment_id
             /\ t[1] = [start |-> 0, end |-> ConfiguredHead, fragment_id |-> "None"]
             /\ t[K + 2] = [start |-> t[K + 1].end,
                            end |-> real_full_wave_length,
                            fragment_id |-> "None"]
    /\ (pc \notin {"a5", "a6"} /\ Len(text_map) = 0) =>
          pc = "done" /\ result = "False" /\ translated_text_map = <<>>

\* two intervals, the second of which ends after 0, have been re-translated
\* with a head length of 1
C16_Witness ==
    /\ Translated
    /\ ConfiguredHead = 1
    /\ Len(text_map) = 2
    /\ text_map[2].end > 0
    /\ Len(translated_text_map) = 4
    /\ translated_text_map[4].start = text_map[2].end + 1

(***************************************************************************)
(* Properties of the stages inside execute                                 *)
(***************************************************************************)
\* C17: with boundary adjustment NONE or AUTO, stage 7 returns the interval
\* list it was given, unchanged, and succeeds, without running voice
\* activity detection.
C17_NoneAndAutoReturnUnchanged ==
    configuration.adjust_boundary_algorithm \in {"None", "auto"} =>
        /\ IsNone(vad_wave_len)
        /\ pc = "s8" => adjusted_map = translated_text_map /\ aliased
        /\ pc = "done" => result # "raised" /\ (Len(ran) > 0 => ran[Len(ran)] # 7)

\* stage 7 has returned under AUTO: four intervals, those of stage 6
C17_Witness ==
    /\ pc = "s8"
    /\ configuration.adjust_boundary_algorithm = "auto"
    /\ Len(translated_text_map) = 4
    /\ adjusted_map = translated_text_map
    /\ IsNone(vad_wave_len)

\* the length of the audio file of the task, before any trimming
FullAudioLength == Val(Val(audio_file).audio_length)

\* C18: the stages run one after another in the fixed order convert (0),
\* MFCC of the full audio (1), cut head/tail (2), synthesize (3), align
\* waves (4), align text (5), translate (6), adjust (7), create sync map
\* (8), cleanup (9), each at most once; the MFCCs of the full audio are
\* extracted before the trimming and are the ones VAD uses, while the DTW
\* alignment runs on the trimmed audio.
C18_StageOrder ==
    /\ Len(ran) <= 10
    /\ \A i \in 1..Len(ran) : ran[i] = i - 1
    /\ Len(ran) >= 3 => real_full_wave_length = FullAudioLength
    /\ ~IsNone(vad_wave_len) =>
          Len(ran) >= 8 /\ Val(vad_wave_len) = FullAudioLength
    /\ ~IsNone(dtw_wave_len) =>
          Len(ran) >= 5 /\ Val(dtw_wave_len) = real_wav_len

\* a run through all ten stages in which stage 2 trimmed the audio: DTW
\* got the shorter wave, VAD the full length
C18_Witness ==
    /\ Succeeded
    /\ ran = << 0, 1, 2, 3, 4, 5, 6, 7, 8, 9 >>
    /\ ~IsNone(vad_wave_len)
    /\ ~IsNone(dtw_wave_len)
    /\ Val(dtw_wave_len) < Val(vad_wave_len)

\* C19: every failure inside a stage 0-8 is surfaced as a failure result
\* with cleanup: once a stage has begun, execute ends by returning True or
\* False after one call of _cleanup, never by an exception that passes its
\* cleanup.
C19_FailuresReturnAfterCleanup ==
    (pc = "done" /\ Len(ran) > 0) =>
        /\ result \in {"True", "False"}
        /\ cleanups = 1
        /\ cleanup_info = <<>>

\* the task has no audio file, or an audio length that is unset or not
\* positive, or no text file, or a text file without fragments
InvalidTask ==
    \/ IsNone(audio_file)
    \/ IsNone(text_file)
    \/ (~IsNone(audio_file) /\ IsNone(Val(audio_file).audio_length))
    \/ (~IsNone(audio_file) /\ ~IsNone(Val(audio_file).audio_length)
          /\ Val(Val(audio_file).audio_length) <= 0)
    \/ (~IsNone(text_file) /\ Len(Val(text_file).fragments) = 0)

\* C20: on a task without audio file, with an audio length unset or not
\* positive, without text file or with zero fragments, execute reports
\* failure before stage 0: no temporary file is created, no stage runs, and
\* the configuration and the sync map of the task stay as they were.
C20_InvalidTaskFailsBeforeStage0 ==
    [][ InvalidTask =>
          /\ pc' = "done"
          /\ result' = "False"
          /\ ran' = <<>>
          /\ tmp_files' = {}
          /\ cleanup_info' = cleanup_info
          /\ cleanups' = 0
          /\ configuration' = configuration
          /\ sync_map' = sync_map
          /\ UNCHANGED task_vars ]_vars

\* execute has returned False on a task whose text file has no fragment
C20_Witness ==
    /\ pc = "done"
    /\ result = "False"
    /\ ~IsNone(audio_file)
    /\ ~IsNone(Val(audio_file).audio_length)
    /\ Val(Val(audio_file).audio_length) > 0
    /\ ~IsNone(text_file)
    /\ Len(Val(text_file).fragments) = 0
    /\ ran = <<>>
    /\ tmp_files = {}
    /\ IsNone(sync_map)

\* C21: when the number of synth anchors the synthesizer returned differs
\* from the number of text fragments, execute reports failure, performs
\* cleanup and leaves the sync map of the task as it was.
C21_AnchorCountMismatchFails ==
    (pc = "done" /\ Len(ran) >= 5 /\ Len(synt_anchors) # Len(Fragments)) =>
        /\ result = "False"
        /\ cleanups = 1
        /\ cleanup_info = <<>>
        /\ IsNone(sync_map)

\* C22: when head/tail detection has run, the values it wrote into the
\* configuration satisfy head_length >= 0, process_length >= 0 and
\* process_length = max(0, audio_length - tail - head), with head = 0 when
\* no detect_head parameter is set and tail = 0 when no detect_tail
\* parameter is set; they stay in the configuration until and after
\* execute returns, on success and on a later failure alike.
C22_DetectedValuesStay ==
    (~IsNone(cut_trace) /\ ~IsNone(Val(cut_trace).detected)) =>
        LET head == Val(Val(cut_trace).detected).head
            tail == Val(Val(cut_trace).detected).tail
            rest == FullAudioLength - tail - head
            c == configuration
        IN /\ ~IsNone(c.is_audio_file_head_length)
           /\ ~IsNone(c.is_audio_file_process_length)
           /\ Val(c.is_audio_file_head_length) >= 0
           /\ Val(c.is_audio_file_process_length) >= 0
           /\ Val(c.is_audio_file_process_length) = IF rest > 0 THEN rest ELSE 0
           /\ (IsNone(c.is_audio_file_detect_head_min)
                 /\ IsNone(c.is_audio_file_detect_head_max)) => head = 0
           /\ (IsNone(c.is_audio_file_detect_tail_min)
                 /\ IsNone(c.is_audio_file_detect_tail_max)) => tail = 0
           /\ \/ ~IsNone(c.is_audio_file_detect_head_min)
              \/ ~IsNone(c.is_audio_file_detect_head_max)
              \/ ~IsNone(c.is_audio_file_detect_tail_min)
              \/ ~IsNone(c.is_audio_file_detect_tail_max)

\* execute has returned False after stage 4 failed; detection had found a
\* head of 2 and a tail of 2 in an audio of length 3 and had written a head
\* length of 2 and a process length of 0, which are still there
C22_Witness ==
    /\ pc = "done"
    /\ result = "False"
    /\ ran = << 0, 1, 2, 3, 4 >>
    /\ FullAudioLength = 3
    /\ ~IsNone(cut_trace)
    /\ Val(cut_trace).detected = Some([head |-> 2, tail |-> 2])
    /\ configuration.is_audio_file_head_length = Some(2)
    /\ configuration.is_audio_file_process_length = Some(0)

\* C23: with an explicit head_length or process_length configured, stage 2
\* never runs the detection, whatever detect parameters are set, trims the
\* audio with the explicit values and leaves the configured head_length and
\* process_length unchanged; with neither explicit nor detect parameters it
\* neither loads nor rewrites the audio file and leaves the configuration
\* unchanged.
C23_ExplicitBeatsDetection ==
    [][ pc = "s2" =>
          LET c == configuration
              explicit == \/ ~IsNone(c.is_audio_file_head_length)
                          \/ ~IsNone(c.is_audio_file_process_length)
              detect == \/ ~IsNone(c.is_audio_file_detect_head_min)
                        \/ ~IsNone(c.is_audio_file_detect_head_max)
                        \/ ~IsNone(c.is_audio_file_detect_tail_min)
                        \/ ~IsNone(c.is_audio_file_detect_tail_max)
          IN /\ ~IsNone(cut_trace')
             /\ explicit =>
                   /\ IsNone(Val(cut_trace').detected)
                   /\ configuration' = configuration
                   /\ pc' = "s3" =>
                         /\ Val(cut_trace').loaded /\ Val(cut_trace').written
                         /\ real_wav_len' = TrimmedLength(real_wav_len,
                                                          c.is_audio_file_head_length,
                                                          c.is_audio_file_process_length)
             /\ (~explicit /\ ~detect) =>
                   /\ ~Val(cut_trace').loaded
                   /\ ~Val(cut_trace').written
                   /\ IsNone(Val(cut_trace').detected)
                   /\ real_wav_len' = real_wav_len
                   /\ configuration' = configuration ]_vars

\* stage 2 has succeeded on a configuration with head_length 1,
\* process_length 1 and detect parameters: nothing was detected, the audio
\* of length 3 was cut to length 1, the two settings are as they were
C23_Witness ==
    /\ pc = "s3"
    /\ configuration.is_audio_file_head_length = Some(1)
    /\ configuration.is_audio_file_process_length = Some(1)
    /\ ~IsNone(configuration.is_audio_file_detect_head_min)
    /\ ~IsNone(configuration.is_audio_file_detect_tail_max)
    /\ ~IsNone(cut_trace)
    /\ IsNone(Val(cut_trace).detected)
    /\ Val(cut_trace).written
    /\ FullAudioLength = 3
    /\ real_wav_len = 1

\* the paths of the entries ever appended to the registry in this run
EverRegistered == { registered[i].path : i \in 1..Len(registered) }

\* C24: every temporary file stage 0 or stage 3 created is registered in
\* cleanup_info before execute can take any exit; at most two entries are
\* registered in one run, the synthesized file only after stages 0-2
\* succeeded; and cleanup_info is empty whenever execute returns after the
\* pipeline has started, even if closing a handle or removing a file failed.
C24_CleanupRegistry ==
    /\ tmp_files \subseteq EverRegistered
    /\ pc # "done" => tmp_files \subseteq RegisteredPaths(cleanup_info)
    /\ Len(registered) <= 2
    /\ Len(cleanup_info) <= Len(registered)
    /\ \A i \in 1..Len(cleanup_info) : cleanup_info[i] = registered[i]
    /\ Len(registered) = 2 =>
          /\ Len(ran) >= 4
          /\ registered[1].path = "real.wav"
          /\ registered[2].path \in {"synt.wav", "None"}
    /\ "synt.wav" \in EverRegistered => Len(registered) = 2
    /\ (Returned /\ Len(ran) > 0) => cleanup_info = <<>>

\* execute has returned True although os.remove failed on both files: the
\* two files had been registered, in the order real, synt, and the registry
\* is empty
C24_Witness ==
    /\ Succeeded
    /\ tmp_files = {"real.wav", "synt.wav"}
    /\ Len(registered) = 2
    /\ registered[1].path = "real.wav"
    /\ registered[2].path = "synt.wav"
    /\ cleanup_info = <<>>

====
